---- MODULE Spec2Model ----
(***************************************************************************)
(* lace-lang front end: Scanner (src/src/scanner.rs), Parser               *)
(* (src/src/parser.rs), the diagnostics reporter (src/src/error.rs) and    *)
(* the driver (src/src/main.rs) that runs them in sequence.                *)
(*                                                                         *)
(* A source text is a sequence of one-character strings.  Indices into the *)
(* source and into the token vector are 0-based as in the Rust code, so    *)
(* element i of a Rust vector is element i+1 of the TLA+ sequence.          *)
(***************************************************************************)
EXTENDS Integers, Sequences, FiniteSets, TLC

VARIABLES
    contents,   \* main.rs:14   the text read from main.lc
    scanner,    \* scanner.rs:53 struct Scanner {source, current, tokens}
    parser,     \* parser.rs:47  struct Parser {tokens, current, source, current_line, ast, warnings}
    pc,         \* the code that runs next (a scan iteration, a parser function, or a final state)
    stack,      \* the parser's pending callers, innermost last
    ret,        \* the Node the last parser function returned
    reports     \* the calls of error::print made so far

vars == <<contents, scanner, parser, pc, stack, ret, reports>>

(***************************************************************************)
(* Token (scanner.rs:6-47).  Every token is a record of the same shape so  *)
(* that tokens compare by variant and payload, as derive(PartialEq) does.  *)
(***************************************************************************)
Tok(kind) == [kind |-> kind, text |-> <<>>, num |-> 0]
StringLiteral(s) == [kind |-> "StringLiteral", text |-> s, num |-> 0]
NumberLiteral(n) == [kind |-> "NumberLiteral", text |-> <<>>, num |-> n]
Keyword(s) == [kind |-> "Keyword", text |-> s, num |-> 0]
Identifier(s) == [kind |-> "Identifier", text |-> s, num |-> 0]
ParenLeft == Tok("ParenLeft")
ParenRight == Tok("ParenRight")
CurlyLeft == Tok("CurlyLeft")
CurlyRight == Tok("CurlyRight")
SquareLeft == Tok("SquareLeft")
SquareRight == Tok("SquareRight")
OpAdd == Tok("OpAdd")
OpSub == Tok("OpSub")
OpDiv == Tok("OpDiv")
OpMul == Tok("OpMul")
OpAssign == Tok("OpAssign")
OpLess == Tok("OpLess")
OpMore == Tok("OpMore")
OpNot == Tok("OpNot")
OpSemicolon == Tok("OpSemicolon")
OpColon == Tok("OpColon")
OpMod == Tok("OpMod")
BitwiseXor == Tok("BitwiseXor")
BitwiseAnd == Tok("BitwiseAnd")
BitwiseOr == Tok("BitwiseOr")
OpPeriod == Tok("OpPeriod")
OpNewline == Tok("OpNewline")
OpComma == Tok("OpComma")
End == Tok("End")

\* scanner.rs:49-51
KEYWORDS ==
    { <<"l","e","t">>, <<"m","u","t">>, <<"p","u","b">>, <<"f","n">>,
      <<"s","t","r","u","c","t">>, <<"e","n","u","m">>, <<"f","r","o","m">>,
      <<"i","m","p","o","r","t">>, <<"o","r">>, <<"a","n","d">> }

\* Option<char>::None, the result of chars().nth(i) past the end of the source
None == "None"

\* the pattern 'A'..='Z' | 'a'..='z' (scanner.rs:83, 147)
Letters ==
    { "a","b","c","d","e","f","g","h","i","j","k","l","m",
      "n","o","p","q","r","s","t","u","v","w","x","y","z",
      "A","B","C","D","E","F","G","H","I","J","K","L","M",
      "N","O","P","Q","R","S","T","U","V","W","X","Y","Z" }

\* the pattern '0'..='9' (scanner.rs:103, 148)
Digits == { "0","1","2","3","4","5","6","7","8","9" }

\* char::to_digit(10) on a decimal digit (scanner.rs:103)
to_digit(c) ==
    CASE c = "0" -> 0 [] c = "1" -> 1 [] c = "2" -> 2 [] c = "3" -> 3
      [] c = "4" -> 4 [] c = "5" -> 5 [] c = "6" -> 6 [] c = "7" -> 7
      [] c = "8" -> 8 [] c = "9" -> 9

\* char::is_whitespace (scanner.rs:137) on the ASCII characters
is_whitespace(c) == c \in { " ", "\t", "\n", "\r", "\f" }

\* the single-character arms of the match in Scanner::scan (scanner.rs:149-170)
SingleCharTokens ==
    [ x \in { ".", "+", "-", "*", "/", "!", "%", ":", ";", "=", "{", "}",
              "(", ")", "[", "]", ">", "<", "^", "|", "&", "," } |->
        CASE x = "." -> OpPeriod    [] x = "+" -> OpAdd       [] x = "-" -> OpSub
          [] x = "*" -> OpMul       [] x = "/" -> OpDiv       [] x = "!" -> OpNot
          [] x = "%" -> OpMod       [] x = ":" -> OpColon     [] x = ";" -> OpSemicolon
          [] x = "=" -> OpAssign    [] x = "{" -> CurlyLeft   [] x = "}" -> CurlyRight
          [] x = "(" -> ParenLeft   [] x = ")" -> ParenRight  [] x = "[" -> SquareLeft
          [] x = "]" -> SquareRight [] x = ">" -> OpMore      [] x = "<" -> OpLess
          [] x = "^" -> BitwiseXor  [] x = "|" -> BitwiseOr   [] x = "&" -> BitwiseAnd
          [] x = "," -> OpComma ]

(***************************************************************************)
(* Scanner (scanner.rs:53-179)                                             *)
(***************************************************************************)
\* Scanner::new (scanner.rs:60-66)
Scanner_new(source, current) == [source |-> source, current |-> current, tokens |-> <<>>]

\* source.chars().nth(i)
nth(source, i) == IF i < Len(source) THEN source[i + 1] ELSE None

\* Scanner::get_current (scanner.rs:74-76)
Scanner_get_current(s) == nth(s.source, s.current)

\* Scanner::advance (scanner.rs:68-71): the scanner after the call; the
\* character it returns is Scanner_get_current of that scanner
Scanner_advance(s) == [s EXCEPT !.current = @ + 1]

\* the while loop of Scanner::identifier (scanner.rs:81-88)
RECURSIVE identifier_loop(_, _)
identifier_loop(s, string) ==
    LET c == Scanner_get_current(s) IN
    IF c # None /\ (c \in Letters \/ c = "_")
    THEN identifier_loop(Scanner_advance(s), Append(string, c))
    ELSE [scanner |-> s, string |-> string]

\* Scanner::identifier without the KEYWORDS test: every run is an Identifier
identifier_unclassified(s) ==
    LET r == identifier_loop(s, <<>>) IN
    [ scanner |-> [r.scanner EXCEPT !.current = @ - 1],
      token |-> Identifier(r.string) ]

\* Scanner::identifier stepping the cursor back by two
identifier_step_back_twice(s) ==
    LET r == identifier_loop(s, <<>>) IN
    [ scanner |-> [r.scanner EXCEPT !.current = @ - 2],
      token |-> IF r.string \in KEYWORDS THEN Keyword(r.string) ELSE Identifier(r.string) ]

\* Scanner::identifier (scanner.rs:78-96)
identifier(s) ==
    LET r == identifier_loop(s, <<>>) IN
    [ scanner |-> [r.scanner EXCEPT !.current = @ - 1],
      token |-> IF r.string \in KEYWORDS THEN Keyword(r.string) ELSE Identifier(r.string) ]

\* the while loop of Scanner::number (scanner.rs:101-108)
RECURSIVE number_loop(_, _)
number_loop(s, num) ==
    LET c == Scanner_get_current(s) IN
    IF c # None /\ c \in Digits
    THEN number_loop(Scanner_advance(s), num * 10 + to_digit(c))
    ELSE [scanner |-> s, num |-> num]

\* Scanner::number without the step back of scanner.rs:110
number_no_step_back(s) ==
    LET r == number_loop(s, 0) IN
    [ scanner |-> r.scanner, token |-> NumberLiteral(r.num) ]

\* Scanner::number (scanner.rs:98-112)
number(s) ==
    LET r == number_loop(s, 0) IN
    [ scanner |-> [r.scanner EXCEPT !.current = @ - 1],
      token |-> NumberLiteral(r.num) ]

\* the while loop of Scanner::string (scanner.rs:118-130); escaping is set
\* by a backslash and never cleared
RECURSIVE string_loop(_, _, _)
string_loop(s, string, escaping) ==
    LET s1 == Scanner_advance(s)
        c == Scanner_get_current(s1)
    IN  IF c = None THEN [scanner |-> s1, string |-> string]
        ELSE IF c = "\\" THEN string_loop(s1, string, TRUE)
        ELSE IF c = "\""
             THEN IF ~escaping THEN [scanner |-> s1, string |-> string]
                  ELSE string_loop(s1, Append(string, "\""), escaping)
        ELSE string_loop(s1, Append(string, c), escaping)

\* Scanner::string (scanner.rs:114-133)
string(s) ==
    LET r == string_loop(s, <<>>, FALSE) IN
    [ scanner |-> r.scanner, token |-> StringLiteral(r.string) ]

\* the characters the match of Scanner::scan has an arm for (scanner.rs:147-171)
Recognised(c) == c \in Letters \/ c \in Digits \/ c \in DOMAIN SingleCharTokens \/ c = "\""

\* the match of Scanner::scan (scanner.rs:146-173) on a recognised character
scan_match(s, c) ==
    IF c \in Letters THEN identifier(s)
    ELSE IF c \in Digits THEN number(s)
    ELSE IF c = "\"" THEN string(s)
    ELSE [scanner |-> s, token |-> SingleCharTokens[c]]

(***************************************************************************)
(* Node (parser.rs:15-45)                                                  *)
(***************************************************************************)
Node_String(s) == [node |-> "String", value |-> s]
Node_Number(n) == [node |-> "Number", value |-> n]
Node_Boolean(b) == [node |-> "Boolean", value |-> b]
Node_Identifier(s) == [node |-> "Identifier", name |-> s]
VariableAssignment(name, value, mutable) ==
    [node |-> "VariableAssignment", name |-> name, value |-> value, mutable |-> mutable]
VariableDestructureAssignment(properties, value, mutable) ==
    [node |-> "VariableDestructureAssignment", properties |-> properties,
     value |-> value, mutable |-> mutable]
Binary(left, right, operation) ==
    [node |-> "Binary", left |-> left, right |-> right, operation |-> operation]
\* a Unary node that records ! whatever the prefix was
Unary_not(left, operation) == [node |-> "Unary", left |-> left, operation |-> "!"]
Unary(left, operation) == [node |-> "Unary", left |-> left, operation |-> operation]
FunctionCall(name, arguments) ==
    [node |-> "FunctionCall", name |-> name, arguments |-> arguments]

\* the value of ret before any parser function has returned
NoNode == [node |-> "none"]

(***************************************************************************)
(* Diagnostics reporter (error.rs:9-58)                                    *)
(***************************************************************************)
\* source.split('\n').collect::<Vec<&str>>() (parser.rs:92, 105)
RECURSIVE split_from(_, _, _)
split_from(source, i, line) ==
    IF i > Len(source) THEN <<line>>
    ELSE IF source[i] = "\n" THEN <<line>> \o split_from(source, i + 1, <<>>)
    ELSE split_from(source, i + 1, Append(line, source[i]))

split(source) == split_from(source, 1, <<>>)

\* error::print (error.rs:9-58): the indices of lines it reads; it panics
\* when one of them is out of bounds
print_reads(lines, error_line) ==
    (IF error_line # 0 THEN {error_line - 1} ELSE {})
    \cup {error_line}
    \cup (IF error_line + 1 >= Len(lines) THEN {} ELSE {error_line + 1})

print(lines, error_line) ==
    IF \A i \in print_reads(lines, error_line) : i >= 0 /\ i < Len(lines)
    THEN "printed" ELSE "panic"

(***************************************************************************)
(* Parser (parser.rs:47-349)                                               *)
(***************************************************************************)
\* Parser::new (parser.rs:58-67)
Parser_new(tokens, source) ==
    [tokens |-> tokens, current |-> 0, source |-> source, ast |-> <<>>,
     current_line |-> 0, warnings |-> 0]

\* Parser::get_current (parser.rs:121-127)
Parser_get_current(p) ==
    IF p.current < Len(p.tokens) THEN p.tokens[p.current + 1] ELSE End

\* an is_at_end() that never sees the end of the stream
is_at_end_never(p) == FALSE

\* Parser::is_at_end (parser.rs:116-118)
is_at_end(p) == Parser_get_current(p) = End

\* an advance() that counts a line for every token
Parser_advance_line_always(p) ==
    [p EXCEPT !.current = @ + 1, !.current_line = @ + 1]

\* an advance() that leaves current where it is
Parser_advance_stuck(p) == p

\* Parser::advance (parser.rs:69-81): the parser after the call; the token
\* it returns is Parser_get_current of that parser
Parser_advance(p) ==
    LET p1 == [p EXCEPT !.current = @ + 1] IN
    IF Parser_get_current(p1) = OpNewline
    THEN [p1 EXCEPT !.current_line = @ + 1]
    ELSE p1

\* one call of the reporter as Parser::error and Parser::warn make it
\* (parser.rs:90-96, 103-109)
Report(p, message, error_type) ==
    [message |-> message, error_line |-> p.current_line, error_type |-> error_type,
     outcome |-> print(split(p.source), p.current_line)]

\* the parser moves on: function next runs next, with parser state p
Goto(p, next, newstack, newret) ==
    /\ parser' = p
    /\ pc' = next
    /\ stack' = newstack
    /\ ret' = newret
    /\ UNCHANGED <<contents, scanner, reports>>

\* Parser::error (parser.rs:89-100): report with Fatal severity, then exit(0)
error(p, message) ==
    LET r == Report(p, message, "Fatal") IN
    /\ parser' = p
    /\ reports' = Append(reports, r)
    /\ pc' = IF r.outcome = "printed" THEN "exit" ELSE "panic"
    /\ UNCHANGED <<contents, scanner, stack, ret>>

\* a Rust panic: unimplemented!(), an index out of bounds
panic(p) ==
    /\ parser' = p
    /\ pc' = "panic"
    /\ UNCHANGED <<contents, scanner, stack, ret, reports>>

Top == stack[Len(stack)]
Pop == SubSeq(stack, 1, Len(stack) - 1)
Push(frame) == Append(stack, frame)
ReplaceTop(frame) == [stack EXCEPT ![Len(stack)] = frame]

let == <<"l","e","t">>
mut == <<"m","u","t">>

(***************************************************************************)
(* Scanner::scan (scanner.rs:135-178), one loop iteration per step         *)
(***************************************************************************)
\* the scanner after the whitespace branch has run on character c, with an
\* OpNewline for every whitespace character
skip_whitespace_newline_always(s, c) ==
    Scanner_advance([s EXCEPT !.tokens = Append(@, OpNewline)])

\* scanner.rs:138-142: the scanner after the whitespace branch has run on c
skip_whitespace(s, c) ==
    Scanner_advance(
        IF c = "\n" THEN [s EXCEPT !.tokens = Append(@, OpNewline)] ELSE s)

\* scanner.rs:137-144: a whitespace character
scan_whitespace ==
    /\ pc = "scan"
    /\ LET c == Scanner_get_current(scanner) IN
       /\ c # None
       /\ is_whitespace(c)
       /\ scanner' = skip_whitespace(scanner, c)
    /\ UNCHANGED <<contents, parser, pc, stack, ret, reports>>

\* scanner.rs:146-176: a character the match has an arm for
scan_token ==
    /\ pc = "scan"
    /\ LET c == Scanner_get_current(scanner) IN
       /\ c # None
       /\ ~is_whitespace(c)
       /\ Recognised(c)
       /\ LET r == scan_match(scanner, c) IN
          scanner' = Scanner_advance([r.scanner EXCEPT !.tokens = Append(@, r.token)])
    /\ UNCHANGED <<contents, parser, pc, stack, ret, reports>>

\* scanner.rs:172: unimplemented!() on any other character
scan_unimplemented ==
    /\ pc = "scan"
    /\ LET c == Scanner_get_current(scanner) IN
       /\ c # None
       /\ ~is_whitespace(c)
       /\ ~Recognised(c)
    /\ pc' = "panic"
    /\ UNCHANGED <<contents, scanner, parser, stack, ret, reports>>

\* scanner.rs:136 with main.rs:18-19: the loop ends at the end of the source
\* and the driver builds the Parser from the tokens and the same text
main_parser ==
    /\ pc = "scan"
    /\ Scanner_get_current(scanner) = None
    /\ parser' = Parser_new(scanner.tokens, contents)
    /\ pc' = "parse"
    /\ UNCHANGED <<contents, scanner, stack, ret, reports>>

(***************************************************************************)
(* Parser::parse and Parser::statement                                     *)
(***************************************************************************)
\* parser.rs:344-345: the loop test; at End parse() returns to the driver
parse ==
    /\ pc = "parse"
    /\ \/ /\ is_at_end(parser)
          /\ Goto(parser, "done", stack, ret)
       \/ /\ ~is_at_end(parser)
          /\ Goto(parser, "statement", Push([fn |-> "parse"]), ret)

\* parser.rs:345-346: statement() has returned, its node is appended
parse_push ==
    /\ pc = "return"
    /\ Top.fn = "parse"
    /\ Goto([parser EXCEPT !.ast = Append(@, ret)], "parse", Pop, ret)

\* the token kinds statement() hands to expression() (parser.rs:327-333)
StatementExpressionKinds ==
    { "NumberLiteral", "StringLiteral", "BooleanLiteral", "OpNot", "OpSub",
      "ParenLeft", "BuiltinFn" }

\* Parser::statement (parser.rs:321-340)
statement ==
    /\ pc = "statement"
    /\ LET t == Parser_get_current(parser) IN
       \/ /\ t = Keyword(let)
          /\ Goto(parser, "variable_init", stack, ret)
       \/ /\ t.kind = "Keyword"
          /\ t.text # let
          /\ panic(parser)
       \/ /\ t.kind \in StatementExpressionKinds
          /\ Goto(parser, "multiplicative_expression", stack, ret)
       \/ /\ t = OpNewline
          /\ Goto(Parser_advance(parser), "statement", stack, ret)
       \/ /\ t.kind \notin StatementExpressionKinds \cup {"Keyword", "OpNewline"}
          /\ error(parser, "SyntaxError: Unexpected token [1]")

(***************************************************************************)
(* Expressions (parser.rs:213-255)                                         *)
(***************************************************************************)
\* a from_builder under which every builder names value(), so that both
\* operator levels take single values as operands
from_builder_value(builder) == "value"

\* Parser::from_builder (parser.rs:213-219): the function a builder names
from_builder(builder) ==
    CASE builder = "unary" -> "value"
      [] builder = "additive" -> "additive_expression"
      [] OTHER -> "panic"

\* Parser::binary_expression, entry (parser.rs:225-226): the left side is parsed
binary_expression(builder, operators) ==
    Goto(parser, from_builder(builder),
         Push([fn |-> "binary_expression", builder |-> builder,
               operators |-> operators, side |-> "left",
               left |-> NoNode, operator |-> End]),
         ret)

\* Parser::multiplicative_expression, which Parser::expression inlines
\* (parser.rs:248-255)
multiplicative_expression ==
    /\ pc = "multiplicative_expression"
    /\ binary_expression("additive", {OpMod, OpMul, OpDiv})

\* Parser::additive_expression (parser.rs:244-246)
additive_expression ==
    /\ pc = "additive_expression"
    /\ binary_expression("unary", {OpAdd, OpSub})

\* Parser::binary_expression, the while loop (parser.rs:228-241): a side has
\* been parsed; on an operator of this level the right side follows
binary_expression_loop ==
    /\ pc = "return"
    /\ Top.fn = "binary_expression"
    /\ LET f == Top
           left == IF f.side = "left" THEN ret ELSE Binary(f.left, ret, f.operator)
           operator == Parser_get_current(parser)
       IN  \/ /\ operator \in f.operators
              /\ Goto(Parser_advance(parser), from_builder(f.builder),
                      ReplaceTop([f EXCEPT !.side = "right", !.left = left,
                                           !.operator = operator]),
                      ret)
           \/ /\ operator \notin f.operators
              /\ Goto(parser, "return", Pop, left)

(***************************************************************************)
(* Parser::value (parser.rs:129-211)                                       *)
(***************************************************************************)
\* the literal arms of the match (parser.rs:134-136)
LiteralKinds == { "BooleanLiteral", "NumberLiteral", "StringLiteral" }

literal(t) ==
    CASE t.kind = "BooleanLiteral" -> Node_Boolean(t.num = 1)
      [] t.kind = "NumberLiteral" -> Node_Number(t.num)
      [] t.kind = "StringLiteral" -> Node_String(t.text)

\* the tokens a ! or - prefix may be followed by (parser.rs:167-172, 182-187)
PrefixOperandKinds ==
    { "BooleanLiteral", "StringLiteral", "NumberLiteral", "Identifier", "OpNot", "OpSub" }

\* Parser::value, from its entry to its first call or return (parser.rs:130-210).
\* current is the token value() was entered on, next the one after it.
value ==
    /\ pc = "value"
    /\ LET current == Parser_get_current(parser)
           p == Parser_advance(parser)
           next == Parser_get_current(p)
       IN  \/ /\ current.kind \in LiteralKinds
              /\ Goto(p, "return", stack, literal(current))
           \/ /\ current.kind = "Identifier"
              /\ next = ParenLeft
              /\ Goto(Parser_advance(p), "value_arguments",
                      Push([fn |-> "value_call", name |-> current.text,
                            arguments |-> <<>>]),
                      ret)
           \/ /\ current.kind = "Identifier"
              /\ next # ParenLeft
              /\ Goto(p, "return", stack, Node_Identifier(current.text))
           \/ /\ current \in {OpNot, OpSub}
              /\ next.kind \in PrefixOperandKinds
              /\ Goto(p, "value",
                      Push([fn |-> "value_unary",
                            operation |-> IF current = OpNot THEN "!" ELSE "-"]),
                      ret)
           \/ /\ current = OpNot
              /\ next.kind \notin PrefixOperandKinds
              /\ error(p, "SyntaxError: Unexpected token [2]. Expected value")
           \/ /\ current = OpSub
              /\ next.kind \notin PrefixOperandKinds
              /\ error(p, "SyntaxError: Unexpected token [3]. Expected value")
           \/ /\ current = ParenLeft
              /\ Goto(p, "multiplicative_expression", Push([fn |-> "value_paren"]), ret)
           \/ /\ current.kind \notin LiteralKinds \cup {"Identifier", "OpNot", "OpSub", "ParenLeft"}
              /\ error(p, "SyntaxError: Unexpected token [4]. Expected value.")

\* the argument loop of a function call, one iteration (parser.rs:144-156)
value_arguments ==
    /\ pc = "value_arguments"
    /\ LET f == Top
           t == Parser_get_current(parser)
       IN  \/ /\ t = ParenRight
              /\ Goto(Parser_advance(parser), "return", Pop, FunctionCall(f.name, f.arguments))
           \/ /\ t = OpComma
              /\ Goto(Parser_advance(parser), "value_arguments", stack, ret)
           \/ /\ t \notin {ParenRight, OpComma}
              /\ Goto(parser, "multiplicative_expression", stack, ret)

\* parser.rs:151: expression() has returned, the argument is pushed
value_argument ==
    /\ pc = "return"
    /\ Top.fn = "value_call"
    /\ Goto(parser, "value_arguments",
            ReplaceTop([Top EXCEPT !.arguments = Append(@, ret)]), ret)

\* parser.rs:172-175, 187-190: the operand of a prefix has been parsed
value_unary ==
    /\ pc = "return"
    /\ Top.fn = "value_unary"
    /\ Goto(parser, "return", Pop, Unary(ret, Top.operation))

\* parser.rs:197-204: the expression after ( has been parsed
value_paren ==
    /\ pc = "return"
    /\ Top.fn = "value_paren"
    /\ \/ /\ Parser_get_current(parser) # ParenRight
          /\ error(parser, "SyntaxError: Expected ')' after expression.")
       \/ /\ Parser_get_current(parser) = ParenRight
          /\ Goto(Parser_advance(parser), "return", Pop, ret)

(***************************************************************************)
(* Parser::variable_init (parser.rs:257-319)                               *)
(***************************************************************************)
\* parser.rs:258-276, 316-318: from the entry to the call of expression() or
\* to the head of the property loop.  p1 is the parser after let, p2 after
\* an optional mut, p3 after expect(OpAssign).
variable_init ==
    /\ pc = "variable_init"
    /\ LET p1 == Parser_advance(parser) IN
       \/ /\ p1.current >= Len(p1.tokens)
          /\ panic(p1)
       \/ /\ p1.current < Len(p1.tokens)
          /\ LET mutable == p1.tokens[p1.current + 1] = Keyword(mut)
                 p2 == IF mutable THEN Parser_advance(p1) ELSE p1
                 t == Parser_get_current(p2)
                 p3 == Parser_advance(p2)
             IN  \/ /\ t.kind = "Identifier"
                    /\ Parser_get_current(p3) # OpAssign
                    /\ error(p3, "Expected assignment operator")
                 \/ /\ t.kind = "Identifier"
                    /\ Parser_get_current(p3) = OpAssign
                    /\ Goto(Parser_advance(p3), "multiplicative_expression",
                            Push([fn |-> "variable_init", name |-> t.text,
                                  mutable |-> mutable]),
                            ret)
                 \/ /\ t = CurlyLeft
                    /\ Goto(p2, "variable_init_properties",
                            Push([fn |-> "variable_init_destructure",
                                  mutable |-> mutable, properties |-> <<>>]),
                            ret)
                 \/ /\ t.kind # "Identifier"
                    /\ t # CurlyLeft
                    /\ error(p2, "SyntaxError: Expected identifier or { after let")

\* parser.rs:267-273: the right-hand expression has been parsed
variable_init_value ==
    /\ pc = "return"
    /\ Top.fn = "variable_init"
    /\ Goto(parser, "return", Pop, VariableAssignment(Top.name, ret, Top.mutable))

\* a warn() that reports without counting the warning
warn_uncounted(p, message) == p

\* Parser::warn (parser.rs:102-113): the parser after the call; the caller
\* below appends the report that warn() prints before it counts the warning
warn(p, message) == [p EXCEPT !.warnings = @ + 1]

\* the property loop, one iteration (parser.rs:277-302).  p1 is the parser
\* after the first advance(), p2 after the advance() that follows mut.
variable_init_properties ==
    /\ pc = "variable_init_properties"
    /\ LET f == Top
           p1 == Parser_advance(parser)
           t1 == Parser_get_current(p1)
           p2 == Parser_advance(p1)
           t2 == Parser_get_current(p2)
           w == Report(p2, "Warning: All destructured properties are mutable.", "Warning")
           next(p) == IF Parser_get_current(p) = CurlyRight
                      THEN "variable_init_source" ELSE "variable_init_properties"
       IN  \/ /\ t1.kind = "Identifier"
              /\ LET p == Parser_advance(p1) IN
                 Goto(p, next(p),
                      ReplaceTop([f EXCEPT !.properties = Append(@, <<t1.text, f.mutable>>)]),
                      ret)
           \/ /\ t1 = Keyword(mut)
              /\ t2.kind = "Identifier"
              /\ ~f.mutable
              /\ LET p == Parser_advance(p2) IN
                 Goto(p, next(p),
                      ReplaceTop([f EXCEPT !.properties = Append(@, <<t2.text, TRUE>>)]),
                      ret)
           \/ /\ t1 = Keyword(mut)
              /\ t2.kind = "Identifier"
              /\ f.mutable
              /\ reports' = Append(reports, w)
              /\ IF w.outcome = "printed"
                 THEN LET p == Parser_advance(warn(p2, w.message)) IN
                      /\ parser' = p
                      /\ pc' = next(p)
                      /\ stack' = ReplaceTop([f EXCEPT !.properties = Append(@, <<t2.text, TRUE>>)])
                 ELSE /\ parser' = p2
                      /\ pc' = "panic"
                      /\ stack' = stack
              /\ UNCHANGED <<contents, scanner, ret>>
           \/ /\ t1 = Keyword(mut)
              /\ t2.kind # "Identifier"
              /\ error(p2, "Expected identifier after mut.")
           \/ /\ t1.kind = "Keyword"
              /\ t1 # Keyword(mut)
              /\ error(p1, "Expected identifier or mut.")
           \/ /\ t1.kind \notin {"Identifier", "Keyword"}
              /\ error(p1, "Expeced identifier or mut.")

\* after the closing brace (parser.rs:304-315).  p1 is the parser after
\* expect(OpAssign), p3 after the two advance() calls that follow.
variable_init_source ==
    /\ pc = "variable_init_source"
    /\ LET f == Top
           p1 == Parser_advance(parser)
           p3 == Parser_advance(Parser_advance(p1))
           t3 == Parser_get_current(p3)
       IN  \/ /\ Parser_get_current(p1) # OpAssign
              /\ error(p1, "Expected assignment operator")
           \/ /\ Parser_get_current(p1) = OpAssign
              /\ t3.kind = "Identifier"
              /\ Goto(p3, "return", Pop,
                      VariableDestructureAssignment(f.properties,
                          Node_Identifier(t3.text), f.mutable))
           \/ /\ Parser_get_current(p1) = OpAssign
              /\ t3.kind # "Identifier"
              /\ error(p3, "SyntaxError: Destructured variable right hand side must be a single identifier")

(***************************************************************************)
(* The source texts the model runs the driver on                           *)
(***************************************************************************)
\* the longest text drawn from ScanAlphabet, in characters
MaxLen == 4

\* the longest text drawn from Lexemes, in lexemes
MaxLexemes == 3

ScanAlphabet == { "a", "_", "1", "0", " ", "\t", "\r", "\n", "\"", "\\" }

Lexemes ==
    { <<"l","e","t"," ">>, <<"m","u","t"," ">>, <<"f","n"," ">>, <<"x">>, <<"1">>,
      <<"+">>, <<"*">>, <<"-">>, <<"!">>, <<"=">>, <<"{">>, <<"}">>, <<"(">>,
      <<")">>, <<",">>, <<"\n">> }

SeqsUpTo(S, n) == UNION { [1..k -> S] : k \in 0..n }

RECURSIVE Concat(_)
Concat(seqs) == IF seqs = <<>> THEN <<>> ELSE Head(seqs) \o Concat(Tail(seqs))

\* let x = 1 + 2
SrcLet == <<"l","e","t"," ","x"," ","="," ","1"," ","+"," ","2">>

\* let mut { a, mut b } = c
SrcDestructure == <<"l","e","t"," ","m","u","t"," ","{"," ","a",","," ","m","u","t"," ","b"," ","}"," ","="," ","c">>

\* foo(1, 2)
SrcCall == <<"f","o","o","(","1",","," ","2",")">>

\* "a\"b"
SrcEscape == <<"\"","a","\\","\"","b","\"">>

\* let x = 1 +
SrcUnfinished == <<"l","e","t"," ","x"," ","="," ","1"," ","+">>

\* let
SrcLetOnly == <<"l","e","t">>

\* fn main
SrcFn == <<"f","n"," ","m","a","i","n">>

\* pub let x = 1
SrcPub == <<"p","u","b"," ","l","e","t"," ","x"," ","="," ","1">>

\* pub fn
SrcPubFn == <<"p","u","b"," ","f","n">>

\* let x = 1
SrcLetPlain == <<"l","e","t"," ","x"," ","="," ","1">>

\* let x = foo(1, 2)
SrcLetCall == <<"l","e","t"," ","x"," ","="," ","f","o","o","(","1",","," ","2",")">>

\* let { a b } = = c
SrcDestructureSkip == <<"l","e","t"," ","{"," ","a"," ","b"," ","}"," ","="," ","="," ","c">>

\* let { mut a } = = c
SrcDestructureMut == <<"l","e","t"," ","{"," ","m","u","t"," ","a"," ","}"," ","="," ","="," ","c">>

\* let mut { a, mut b } = = c
SrcDestructureWarn == <<"l","e","t"," ","m","u","t"," ","{"," ","a",","," ","m","u","t"," ","b"," ","}"," ","="," ","="," ","c">>

\* _a
SrcUnderscore == <<"_","a">>

\* or and_ fn
SrcKeywordRun == <<"o","r"," ","a","n","d","_"," ","f","n">>

\* 0042 7
SrcNumber == <<"0","0","4","2"," ","7">>

\* (1 + 2) * 3\n-x
SrcParen == <<"(","1"," ","+"," ","2",")"," ","*"," ","3","\n","-","x">>

\* 1 * 2 + 3
SrcMulAdd == <<"1"," ","*"," ","2"," ","+"," ","3">>

\* 1 + 2 * 3
SrcAddMul == <<"1"," ","+"," ","2"," ","*"," ","3">>

\* 1 - 2 - 3
SrcSubSub == <<"1"," ","-"," ","2"," ","-"," ","3">>

\* \n1\n\n2\n
SrcNewlines == <<"\n","1","\n","\n","2","\n">>

\* "a\"b" "c"
SrcEscapeTwo == <<"\"","a","\\","\"","b","\""," ","\"","c","\"">>

\* 8 % 3 - 1 / 2 + x
SrcModDiv == <<"8"," ","%"," ","3"," ","-"," ","1"," ","/"," ","2"," ","+"," ","x">>

\* let y = a / 2 % 3
SrcLetDivMod == <<"l","e","t"," ","y"," ","="," ","a"," ","/"," ","2"," ","%"," ","3">>

\* !-1
SrcNotNeg == <<"!","-","1">>

\* -foo(1)
SrcNegCall == <<"-","f","o","o","(","1",")">>

\* -(1)
SrcNegParen == <<"-","(","1",")">>

\* 1\nlet mut { mut b } = = c
SrcWarnSecondLine == <<"1","\n","l","e","t"," ","m","u","t"," ","{"," ","m","u","t"," ","b"," ","}"," ","="," ","="," ","c">>

Examples ==
    { SrcLet, SrcDestructure, SrcCall, SrcEscape,
      SrcUnfinished, SrcLetOnly, SrcFn, SrcPub,
      SrcPubFn, SrcLetPlain, SrcLetCall, SrcDestructureSkip,
      SrcDestructureMut, SrcDestructureWarn, SrcUnderscore, SrcKeywordRun,
      SrcNumber, SrcParen, SrcMulAdd, SrcAddMul,
      SrcSubSub, SrcNewlines, SrcEscapeTwo, SrcModDiv,
      SrcLetDivMod, SrcNotNeg, SrcNegCall, SrcNegParen,
      SrcWarnSecondLine }

Sources ==
    Examples
    \cup SeqsUpTo(ScanAlphabet, MaxLen)
    \cup { Concat(ls) : ls \in SeqsUpTo(Lexemes, MaxLexemes) }

(***************************************************************************)
(* The driver (main.rs:11-21)                                              *)
(***************************************************************************)
\* main.rs:14-15: the text is read and the Scanner built; the Parser does not
\* exist before scan() returns, its variable holds an empty one until then
Init ==
    /\ contents \in Sources
    /\ scanner = Scanner_new(contents, 0)
    /\ parser = Parser_new(<<>>, contents)
    /\ pc = "scan"
    /\ stack = <<>>
    /\ ret = NoNode
    /\ reports = <<>>

Next ==
    \/ scan_whitespace
    \/ scan_token
    \/ scan_unimplemented
    \/ main_parser
    \/ parse
    \/ parse_push
    \/ statement
    \/ multiplicative_expression
    \/ additive_expression
    \/ binary_expression_loop
    \/ value
    \/ value_arguments
    \/ value_argument
    \/ value_unary
    \/ value_paren
    \/ variable_init
    \/ variable_init_value
    \/ variable_init_properties
    \/ variable_init_source

Spec == Init /\ [][Next]_vars

(***************************************************************************)
(* Properties                                                              *)
(***************************************************************************)
\* scan() has returned and the driver has built the Parser
ParserStarted == pc # "scan" /\ Scanner_get_current(scanner) = None

LastReport == reports[Len(reports)]

\* the end (0-based, exclusive) of the run of characters of `class` that
\* starts at 0-based index i of src
RECURSIVE RunEnd(_, _, _)
RunEnd(src, i, class) ==
    IF i < Len(src) /\ src[i + 1] \in class THEN RunEnd(src, i + 1, class) ELSE i

RECURSIVE Pow10(_)
Pow10(k) == IF k = 0 THEN 1 ELSE 10 * Pow10(k - 1)

DigitValue ==
    [ d \in { "0","1","2","3","4","5","6","7","8","9" } |->
        CASE d = "0" -> 0 [] d = "1" -> 1 [] d = "2" -> 2 [] d = "3" -> 3
          [] d = "4" -> 4 [] d = "5" -> 5 [] d = "6" -> 6 [] d = "7" -> 7
          [] d = "8" -> 8 [] d = "9" -> 9 ]

\* the number a decimal numeral denotes: the sum of digit * 10^position
RECURSIVE DecimalValue(_)
DecimalValue(digits) ==
    IF digits = <<>> THEN 0
    ELSE DigitValue[Head(digits)] * Pow10(Len(digits) - 1) + DecimalValue(Tail(digits))

RECURSIVE Count(_, _)
Count(seq, x) ==
    IF seq = <<>> THEN 0
    ELSE (IF Head(seq) = x THEN 1 ELSE 0) + Count(Tail(seq), x)

ExpectKeyword(text) == [kind |-> "Keyword", text |-> text, num |-> 0]
ExpectIdentifier(text) == [kind |-> "Identifier", text |-> text, num |-> 0]
ExpectNumber(n) == [kind |-> "NumberLiteral", text |-> <<>>, num |-> n]
ExpectOp(kind) == [kind |-> kind, text |-> <<>>, num |-> 0]
ExpectNumberNode(n) == [node |-> "Number", value |-> n]

\* C1: scanning "let x = 1 + 2" yields exactly Keyword(let), Identifier(x),
\* OpAssign, NumberLiteral(1), OpAdd, NumberLiteral(2); parse() then completes
\* without any diagnostic and the AST is the single node
\* VariableAssignment{x, Binary{Number(1), Number(2), OpAdd}, mutable: false}.
C1_LetBinding ==
    contents = SrcLet =>
        /\ pc \notin {"exit", "panic"}
        /\ reports = <<>>
        /\ ParserStarted =>
             parser.tokens =
                << ExpectKeyword(<<"l","e","t">>), ExpectIdentifier(<<"x">>),
                   ExpectOp("OpAssign"), ExpectNumber(1), ExpectOp("OpAdd"),
                   ExpectNumber(2) >>
        /\ pc = "done" =>
             parser.ast =
                << [node |-> "VariableAssignment", name |-> <<"x">>,
                    value |-> [node |-> "Binary", left |-> ExpectNumberNode(1),
                               right |-> ExpectNumberNode(2),
                               operation |-> ExpectOp("OpAdd")],
                    mutable |-> FALSE] >>

C1_Witness == contents = SrcLet /\ pc = "done" /\ Len(parser.ast) = 1

\* C2: scanning and parsing "let mut { a, mut b } = c" completes without a
\* fatal error, the AST is the single node VariableDestructureAssignment with
\* properties [(a, true), (b, true)], value Identifier(c) and mutable = true,
\* and the warning counter is 1 at the end.
C2_Destructure ==
    contents = SrcDestructure =>
        /\ pc \notin {"exit", "panic"}
        /\ pc = "done" =>
             /\ parser.ast =
                  << [node |-> "VariableDestructureAssignment",
                      properties |-> << <<(<<"a">>), TRUE>>, <<(<<"b">>), TRUE>> >>,
                      value |-> [node |-> "Identifier", name |-> <<"c">>],
                      mutable |-> TRUE] >>
             /\ parser.warnings = 1

\* C3: scanning and parsing "foo(1, 2)" completes without a fatal error and
\* the AST's only node is FunctionCall{foo, [Number(1), Number(2)]}.
C3_CallStatement ==
    contents = SrcCall =>
        /\ pc \notin {"exit", "panic"}
        /\ pc = "done" =>
             parser.ast =
                << [node |-> "FunctionCall", name |-> <<"f","o","o">>,
                    arguments |-> << ExpectNumberNode(1), ExpectNumberNode(2) >>] >>

\* the 0-based index of the first double quote after index i that is not
\* immediately preceded by a backslash; Len(src) when there is none
RECURSIVE ClosingQuote(_, _)
ClosingQuote(src, j) ==
    IF j >= Len(src) THEN Len(src)
    ELSE IF src[j + 1] = "\"" /\ src[j] # "\\" THEN j
    ELSE ClosingQuote(src, j + 1)

\* a literal's body with each backslash-quote pair replaced by a quote
RECURSIVE Unescape(_)
Unescape(body) ==
    IF body = <<>> THEN <<>>
    ELSE IF Len(body) >= 2 /\ body[1] = "\\" /\ body[2] = "\""
         THEN <<"\"">> \o Unescape(SubSeq(body, 3, Len(body)))
    ELSE <<Head(body)>> \o Unescape(Tail(body))

\* every backslash of the body is followed by a double quote
BalancedEscapes(body) ==
    \A k \in 1..Len(body) :
        body[k] = "\\" => (k < Len(body) /\ body[k + 1] = "\"")

\* C4: when the scan loop is at the opening quote of a terminated string
\* literal whose backslashes each escape a double quote, the step emits one
\* StringLiteral holding the body with each backslash-quote pair replaced by
\* a quote, and leaves the cursor right after the first quote that is not
\* preceded by a backslash.
C4_StringEscape ==
    [][ (pc = "scan" /\ Scanner_get_current(scanner) = "\"") =>
          LET i == scanner.current
              j == ClosingQuote(contents, i + 1)
              body == SubSeq(contents, i + 2, j)
          IN  (j < Len(contents) /\ BalancedEscapes(body)) =>
                /\ scanner'.tokens =
                     Append(scanner.tokens,
                            [kind |-> "StringLiteral", text |-> Unescape(body), num |-> 0])
                /\ scanner'.current = j + 1 ]_vars

BinaryOperatorKinds == { "OpAdd", "OpSub", "OpMul", "OpDiv", "OpMod" }

\* the token stream ends with a binary operator
EndsMidExpression ==
    /\ ParserStarted
    /\ parser.tokens # <<>>
    /\ parser.tokens[Len(parser.tokens)].kind \in BinaryOperatorKinds

\* C5: on a token stream that ends with a binary operator, parse() never
\* returns normally and never aborts without a diagnostic: it ends by a
\* Fatal report followed by exit, and the AST is not appended to once the
\* last token has been consumed.
C5_MidExpressionFatal ==
    EndsMidExpression =>
        /\ pc \notin {"done", "panic"}
        /\ pc = "exit" => LastReport.error_type = "Fatal"
        /\ parser.current >= Len(parser.tokens) => pc \notin {"parse"}

\* C6: parse() rejects an input only through Parser::error: it never ends by
\* a panic, and when it exits a Fatal report has just been made.
C6_RejectOnlyThroughError ==
    ParserStarted =>
        /\ pc # "panic"
        /\ pc = "exit" => (reports # <<>> /\ LastReport.error_type = "Fatal")

\* C7: "pub let x = 1" is parsed to the VariableAssignment node that
\* "let x = 1" gives, and "pub fn" ends by a Fatal report.
C7_PubBinding ==
    /\ contents = SrcPub =>
         /\ pc \notin {"exit", "panic"}
         /\ pc = "done" =>
              parser.ast =
                 << [node |-> "VariableAssignment", name |-> <<"x">>,
                     value |-> ExpectNumberNode(1), mutable |-> FALSE] >>
    /\ contents = SrcPubFn =>
         /\ pc \notin {"done", "panic"}
         /\ pc = "exit" => LastReport.error_type = "Fatal"

WordChars == Letters \cup {"_"}

ReferenceKeywords ==
    { <<"l","e","t">>, <<"m","u","t">>, <<"p","u","b">>, <<"f","n">>,
      <<"s","t","r","u","c","t">>, <<"e","n","u","m">>, <<"f","r","o","m">>,
      <<"i","m","p","o","r","t">>, <<"o","r">>, <<"a","n","d">> }

\* C8: when the scan loop is at a letter or an underscore, that character
\* starts a maximal run of letters and underscores and the step emits the
\* whole run as one token, Keyword(run) for the ten keywords and
\* Identifier(run) otherwise, leaving the cursor at the end of the run.
C8_WordRuns ==
    [][ (pc = "scan" /\ Scanner_get_current(scanner) \in WordChars) =>
          LET i == scanner.current
              j == RunEnd(contents, i, WordChars)
              run == SubSeq(contents, i + 1, j)
          IN  /\ (i = 0 \/ contents[i] \notin WordChars)
              /\ scanner'.tokens =
                   Append(scanner.tokens,
                          [kind |-> IF run \in ReferenceKeywords
                                    THEN "Keyword" ELSE "Identifier",
                           text |-> run, num |-> 0])
              /\ scanner'.current = j ]_vars

WhitespaceOnly(src) == \A k \in 1..Len(src) : src[k] \in {" ", "\t", "\r", "\n"}

\* C9: on a source of spaces, tabs, carriage returns and newlines only,
\* scan() never aborts, every token it has produced is an OpNewline, there
\* is one per newline character passed so far, and so the tokens handed to
\* the parser are exactly one OpNewline per newline of the source.
C9_WhitespaceOnly ==
    WhitespaceOnly(contents) =>
        /\ pc = "panic" => ParserStarted
        /\ \A k \in 1..Len(scanner.tokens) : scanner.tokens[k] = ExpectOp("OpNewline")
        /\ scanner.current <= Len(contents)
        /\ Len(scanner.tokens) = Count(SubSeq(contents, 1, scanner.current), "\n")
        /\ ParserStarted =>
             /\ Len(parser.tokens) = Count(contents, "\n")
             /\ \A k \in 1..Len(parser.tokens) : parser.tokens[k] = ExpectOp("OpNewline")

C9_Witness ==
    /\ WhitespaceOnly(contents)
    /\ ParserStarted
    /\ Len(parser.tokens) >= 2
    /\ Len(contents) > Len(parser.tokens)
    /\ contents[1] # "\n"

\* C10: when the scan loop is at a digit, that digit starts a maximal run of
\* digits and the step emits exactly one NumberLiteral holding the decimal
\* value of the whole run (leading zeros included), leaving the cursor on the
\* character right after the run.
C10_NumberRoundTrip ==
    [][ (pc = "scan" /\ Scanner_get_current(scanner) \in Digits) =>
          LET i == scanner.current
              j == RunEnd(contents, i, DOMAIN DigitValue)
          IN  /\ (i = 0 \/ contents[i] \notin DOMAIN DigitValue)
              /\ scanner'.tokens =
                   Append(scanner.tokens,
                          ExpectNumber(DecimalValue(SubSeq(contents, i + 1, j))))
              /\ scanner'.current = j ]_vars

\* a run of several digits with a leading zero has been scanned, and a
\* character follows it
C10_Witness ==
    /\ pc = "scan"
    /\ scanner.tokens # <<>>
    /\ scanner.tokens[Len(scanner.tokens)] = ExpectNumber(10)
    /\ scanner.current >= 3
    /\ scanner.current < Len(contents)
    /\ contents[scanner.current - 2] = "0"

\* the token at 0-based index i of the parser's stream, End past its end
TokenAt(p, i) == IF i < Len(p.tokens) THEN p.tokens[i + 1] ELSE ExpectOp("End")

\* the property loop of a destructuring pattern is about to read mut and
\* then an identifier
MutProperty ==
    /\ pc = "variable_init_properties"
    /\ TokenAt(parser, parser.current + 1) = ExpectKeyword(<<"m","u","t">>)
    /\ TokenAt(parser, parser.current + 2).kind = "Identifier"

AdditiveKinds == { "OpAdd", "OpSub" }
MultiplicativeKinds == { "OpMod", "OpMul", "OpDiv" }

\* operands joined by binary operators: an operand at every odd position, a
\* binary operator at every even one
IsOperandChain(toks) ==
    /\ Len(toks) % 2 = 1
    /\ \A k \in 1..Len(toks) :
         IF k % 2 = 1 THEN toks[k].kind \in {"NumberLiteral", "Identifier"}
         ELSE toks[k].kind \in AdditiveKinds \cup MultiplicativeKinds

RefOperand(t) ==
    IF t.kind = "NumberLiteral" THEN [node |-> "Number", value |-> t.num]
    ELSE [node |-> "Identifier", name |-> t.text]

\* the reference tree of a chain whose operators are all + or -
RECURSIVE RefAdditive(_)
RefAdditive(toks) ==
    IF Len(toks) = 1 THEN RefOperand(toks[1])
    ELSE [node |-> "Binary",
          left |-> RefAdditive(SubSeq(toks, 1, Len(toks) - 2)),
          right |-> RefOperand(toks[Len(toks)]),
          operation |-> toks[Len(toks) - 1]]

\* the reference tree of a chain: it is split at its last %, * or /, whose
\* left side is a chain and whose right side holds + and - only
RECURSIVE RefMultiplicative(_)
RefMultiplicative(toks) ==
    LET at == { k \in 1..Len(toks) : toks[k].kind \in MultiplicativeKinds } IN
    IF at = {} THEN RefAdditive(toks)
    ELSE LET k == CHOOSE m \in at : \A n \in at : n <= m IN
         [node |-> "Binary",
          left |-> RefMultiplicative(SubSeq(toks, 1, k - 1)),
          right |-> RefAdditive(SubSeq(toks, k + 1, Len(toks))),
          operation |-> toks[k]]

\* the token stream is let name = followed by an operand chain
IsLetChain(toks) ==
    /\ Len(toks) >= 4
    /\ toks[1] = ExpectKeyword(<<"l","e","t">>)
    /\ toks[2].kind = "Identifier"
    /\ toks[3] = ExpectOp("OpAssign")
    /\ IsOperandChain(SubSeq(toks, 4, Len(toks)))

\* C12: for operands joined by binary operators, as an expression statement
\* that starts with a number or as the right-hand side of let name =,
\* expression() returns the tree of the reference grammar in which + and -
\* bind tighter than %, * and /, both levels associate to the left and each
\* Binary node holds the operator token that joined its sides; parsing ends
\* without a diagnostic.  1 + 2 * 3, 1 * 2 + 3 and 1 - 2 - 3 give the trees
\* Binary{Binary{1,2,OpAdd},3,OpMul}, Binary{1,Binary{2,3,OpAdd},OpMul} and
\* Binary{Binary{1,2,OpSub},3,OpSub}.
C12_Precedence ==
    ParserStarted =>
      /\ (IsOperandChain(parser.tokens) /\ parser.tokens[1].kind = "NumberLiteral") =>
           /\ pc \notin {"exit", "panic"}
           /\ pc = "done" => parser.ast = << RefMultiplicative(parser.tokens) >>
      /\ IsLetChain(parser.tokens) =>
           /\ pc \notin {"exit", "panic"}
           /\ pc = "done" =>
                parser.ast =
                   << [node |-> "VariableAssignment", name |-> parser.tokens[2].text,
                       value |-> RefMultiplicative(SubSeq(parser.tokens, 4, Len(parser.tokens))),
                       mutable |-> FALSE] >>
      /\ (contents = SrcAddMul /\ pc = "done") =>
           parser.ast =
              << [node |-> "Binary",
                  left |-> [node |-> "Binary", left |-> ExpectNumberNode(1),
                            right |-> ExpectNumberNode(2), operation |-> ExpectOp("OpAdd")],
                  right |-> ExpectNumberNode(3), operation |-> ExpectOp("OpMul")] >>
      /\ (contents = SrcMulAdd /\ pc = "done") =>
           parser.ast =
              << [node |-> "Binary", left |-> ExpectNumberNode(1),
                  right |-> [node |-> "Binary", left |-> ExpectNumberNode(2),
                             right |-> ExpectNumberNode(3), operation |-> ExpectOp("OpAdd")],
                  operation |-> ExpectOp("OpMul")] >>
      /\ (contents = SrcSubSub /\ pc = "done") =>
           parser.ast =
              << [node |-> "Binary",
                  left |-> [node |-> "Binary", left |-> ExpectNumberNode(1),
                            right |-> ExpectNumberNode(2), operation |-> ExpectOp("OpSub")],
                  right |-> ExpectNumberNode(3), operation |-> ExpectOp("OpSub")] >>

\* 8 % 3 - 1 / 2 + x has been parsed to the end: both levels, four operators
C12_Witness ==
    /\ contents = SrcModDiv
    /\ pc = "done"
    /\ Len(parser.ast) = 1
    /\ parser.ast[1].operation = ExpectOp("OpDiv")
    /\ parser.ast[1].left.operation = ExpectOp("OpMod")
    /\ parser.ast[1].left.right.operation = ExpectOp("OpSub")

\* the tokens of seq that are not OpNewline, in order
RECURSIVE WithoutNewlines(_)
WithoutNewlines(toks) ==
    IF toks = <<>> THEN <<>>
    ELSE IF Head(toks) = ExpectOp("OpNewline") THEN WithoutNewlines(Tail(toks))
    ELSE <<Head(toks)>> \o WithoutNewlines(Tail(toks))

\* the token stream is a sequence of one-number statements with OpNewline
\* tokens before, between and after them
NumberStatements(toks) ==
    \A k \in 1..Len(toks) : toks[k].kind \in {"NumberLiteral", "OpNewline"}

\* C13: on a stream of one-number statements with OpNewline tokens added
\* before the first, between two, or after the last of them, parse()
\* completes without a fatal diagnostic and the AST is the one the stream
\* gives without the newlines: the Number nodes in order.
C13_NewlineSeparators ==
    (ParserStarted /\ NumberStatements(parser.tokens)) =>
        /\ pc \notin {"exit", "panic"}
        /\ pc = "done" =>
             LET numbers == WithoutNewlines(parser.tokens) IN
             parser.ast = [k \in 1..Len(numbers) |-> ExpectNumberNode(numbers[k].num)]

\* the token a node's text ends with, when the node is not wrapped in
\* parentheses
RECURSIVE LastToken(_)
LastToken(n) ==
    CASE n.node = "Number" -> ExpectNumber(n.value)
      [] n.node = "String" -> [kind |-> "StringLiteral", text |-> n.value, num |-> 0]
      [] n.node = "Identifier" -> ExpectIdentifier(n.name)
      [] n.node = "Binary" -> LastToken(n.right)
      [] n.node = "Unary" -> LastToken(n.left)
      [] n.node = "FunctionCall" -> ExpectOp("ParenRight")
      [] n.node = "VariableAssignment" -> LastToken(n.value)
      [] n.node = "VariableDestructureAssignment" -> LastToken(n.value)

\* statement() has returned its node to parse()
StatementReturned == pc = "return" /\ stack # <<>> /\ Top.fn = "parse"

\* C14: when statement() returns a node to parse(), the statement's tokens
\* have all been consumed: the token just below current is the one the
\* statement ends with (the last token of the node, or a closing
\* parenthesis), so the next statement starts after it.
C14_StatementConsumed ==
    StatementReturned =>
        /\ parser.current >= 1
        /\ TokenAt(parser, parser.current - 1) \in {LastToken(ret), ExpectOp("ParenRight")}

\* the number of OpNewline tokens at 0-based indices strictly below current
NewlinesConsumed(p) ==
    Cardinality({ k \in 1..Len(p.tokens) :
                    k <= p.current /\ p.tokens[k] = ExpectOp("OpNewline") })

\* C15: at every point of parsing, current_line is the number of OpNewline
\* tokens at indices strictly below current, and the line index of a report
\* just made is that number too.
C15_LineCounter ==
    ParserStarted =>
        /\ parser.current_line = NewlinesConsumed(parser)
        /\ (pc = "exit" /\ reports # <<>>) =>
             LastReport.error_line = NewlinesConsumed(parser)

PrefixKinds == { "OpNot", "OpSub" }

\* the number of ! and - tokens the stream starts with
RECURSIVE PrefixCount(_)
PrefixCount(toks) ==
    IF toks # <<>> /\ Head(toks).kind \in PrefixKinds
    THEN 1 + PrefixCount(Tail(toks)) ELSE 0

\* a single literal or identifier, or a call name(number)
IsPrefixOperand(rest) ==
    \/ /\ Len(rest) = 1
       /\ rest[1].kind \in {"NumberLiteral", "StringLiteral", "Identifier"}
    \/ /\ Len(rest) = 4
       /\ rest[1].kind = "Identifier"
       /\ rest[2] = ExpectOp("ParenLeft")
       /\ rest[3].kind = "NumberLiteral"
       /\ rest[4] = ExpectOp("ParenRight")

RefPrefixOperand(rest) ==
    IF Len(rest) = 4
    THEN [node |-> "FunctionCall", name |-> rest[1].text,
          arguments |-> << ExpectNumberNode(rest[3].num) >>]
    ELSE IF rest[1].kind = "StringLiteral"
         THEN [node |-> "String", value |-> rest[1].text]
         ELSE RefOperand(rest[1])

\* the reference tree of prefixes followed by an operand: one Unary per
\* prefix, the first prefix outermost
RECURSIVE RefUnary(_)
RefUnary(toks) ==
    IF Head(toks).kind \in PrefixKinds
    THEN [node |-> "Unary", left |-> RefUnary(Tail(toks)),
          operation |-> IF Head(toks).kind = "OpNot" THEN "!" ELSE "-"]
    ELSE RefPrefixOperand(toks)

\* C16: a stream of one or more ! and - prefixes followed by a literal, an
\* identifier or a call name(number) is parsed without a diagnostic to nested
\* Unary nodes, one per prefix with its own operation, around the operand
\* (the whole call when the operand is one); when the last prefix is followed
\* by any other token, ( and the end of the stream included, parsing ends by
\* a Fatal report made with current on that token, and nothing is appended.
C16_UnaryPrefix ==
    LET toks == parser.tokens
        k == PrefixCount(toks)
        rest == SubSeq(toks, k + 1, Len(toks))
    IN  (ParserStarted /\ k >= 1) =>
          /\ IsPrefixOperand(rest) =>
               /\ pc \notin {"exit", "panic"}
               /\ pc = "done" => parser.ast = << RefUnary(toks) >>
          /\ (rest = <<>> \/ rest[1].kind \notin
                 {"BooleanLiteral", "NumberLiteral", "StringLiteral", "Identifier"}) =>
               /\ pc \notin {"done", "panic"}
               /\ parser.ast = <<>>
               /\ pc = "exit" =>
                    /\ Len(reports) = 1
                    /\ LastReport.error_type = "Fatal"
                    /\ parser.current = k

\* !-1 has been parsed to Unary{Unary{1, -}, !}
C16_Witness ==
    /\ contents = SrcNotNeg
    /\ pc = "done"
    /\ Len(parser.ast) = 1
    /\ parser.ast[1].node = "Unary"
    /\ parser.ast[1].left.node = "Unary"
    /\ parser.ast[1].left.operation = "-"

\* C17: in every step the parser's current does not decrease; the current
\* token is End exactly when current is at or past the length of the stream;
\* and when the loop of parse() is at its test with End as the current token,
\* the step ends parse() with the AST as it was.
C17_CurrentMonotone ==
    [][ /\ parser'.current >= parser.current
        /\ ParserStarted =>
             /\ (Parser_get_current(parser) = ExpectOp("End"))
                   <=> (parser.current >= Len(parser.tokens))
             /\ (pc = "parse" /\ parser.current >= Len(parser.tokens)) =>
                   /\ pc' = "done"
                   /\ parser'.ast = parser.ast
                   /\ reports' = reports ]_vars

\* (1 + 2) * 3 and -x have both been appended and the loop has ended at End
C17_Witness ==
    /\ contents = SrcParen
    /\ pc = "done"
    /\ Len(parser.ast) = 2
    /\ parser.current = Len(parser.tokens)

\* parse() has been entered and has not ended
Parsing == pc \notin {"scan", "done", "exit", "panic"}

Halted == pc \in {"done", "exit", "panic"}

\* how far current may still rise: advance() is called at most three times
\* in a row once End is the current token
Remaining == Len(parser.tokens) + 3 - parser.current

\* the position of a step between two advances: a returning function ranks
\* above every function about to be called, a deeper return above a shallower
Phase ==
    CASE pc = "return" -> 10 + Len(stack)
      [] pc = "parse" -> 9
      [] pc = "statement" -> 8
      [] pc = "variable_init" -> 7
      [] pc = "value_arguments" -> 6
      [] pc = "multiplicative_expression" -> 5
      [] pc = "additive_expression" -> 4
      [] pc = "value" -> 3
      [] pc = "variable_init_properties" -> 2
      [] pc = "variable_init_source" -> 1
      [] OTHER -> 0

\* C18: parse() halts on every token sequence.  Every step of the parser
\* lowers the pair (Remaining, Phase) in the lexicographic order on naturals,
\* so no run of parse() is infinite.  Every call of statement() advances
\* current, ends parsing, or calls variable_init() or expression(); every
\* iteration of the argument loop advances current or calls expression();
\* expression() reaches value() without another choice; and value(),
\* variable_init() and every iteration of the property loop advance current
\* or end parsing, also when the current token is End.
C18_Progress ==
    [][ Parsing =>
          /\ Remaining >= 0
          /\ Phase > 0
          /\ \/ Halted'
             \/ Remaining' < Remaining
             \/ (Remaining' = Remaining /\ Phase' < Phase)
          /\ parser'.current >= parser.current
          /\ pc = "statement" =>
               \/ parser'.current > parser.current
               \/ pc' \in {"exit", "panic", "variable_init", "multiplicative_expression"}
          /\ pc = "value_arguments" =>
               \/ parser'.current > parser.current
               \/ pc' = "multiplicative_expression"
          /\ pc = "multiplicative_expression" => pc' = "additive_expression"
          /\ pc = "additive_expression" => pc' = "value"
          /\ pc \in {"value", "variable_init", "variable_init_properties",
                     "variable_init_source"} =>
               \/ parser'.current > parser.current
               \/ pc' \in {"exit", "panic"} ]_vars

\* the stream ended inside an argument list and parsing has ended by a
\* Fatal report
C18_Witness ==
    /\ pc = "exit"
    /\ parser.current > Len(parser.tokens)
    /\ \E k \in 1..Len(stack) : stack[k].fn = "value_call"
    /\ LastReport.error_type = "Fatal"

\* C19: scan() terminates.  Every iteration of the scan loop that does not
\* abort on an unrecognised character leaves the cursor strictly greater
\* than it found it and at most one past the end of the source, whatever it
\* scanned (a word or a number, after which the cursor is stepped back, an
\* unterminated string, a single character, whitespace); with the cursor at
\* or past the end the loop stops and the tokens go to the parser as they
\* are; and no produced token is End.
C19_ScanTerminates ==
    [][ pc = "scan" =>
          /\ (pc' = "scan") =>
               /\ scanner.current < Len(contents)
               /\ scanner'.current > scanner.current
               /\ scanner'.current <= Len(contents) + 1
               /\ Len(scanner'.tokens) <= Len(scanner.tokens) + 1
          /\ (scanner.current >= Len(contents)) =>
               /\ pc' = "parse"
               /\ scanner' = scanner
               /\ parser'.tokens = scanner.tokens
          /\ \A k \in 1..Len(scanner'.tokens) : scanner'.tokens[k].kind # "End" ]_vars

\* a word and then an unterminated string literal have been scanned: the
\* cursor is one past the end of the source and the loop has stopped
C19_Witness ==
    /\ ParserStarted
    /\ scanner.current = Len(contents) + 1
    /\ Len(scanner.tokens) = 2
    /\ scanner.tokens[1].kind = "Identifier"
    /\ scanner.tokens[2].kind = "StringLiteral"

\* the number of lines of the source: one more than its newline characters
LineCount == Count(contents, "\n") + 1

\* C20: with the parser built from the scanner's tokens and the same text,
\* the line counter stays below the number of lines of the source, so every
\* report of Parser::error and Parser::warn was made with a line index below
\* that number, the reporter read lines[error_line], lines[error_line - 1]
\* and lines[error_line + 1] within bounds, and it did not panic.
C20_ReporterInBounds ==
    ParserStarted =>
        /\ parser.source = contents
        /\ parser.current_line < LineCount
        /\ \A k \in 1..Len(reports) :
             /\ reports[k].error_line < LineCount
             /\ reports[k].error_line # 0 => reports[k].error_line - 1 < LineCount
             /\ reports[k].error_line + 1 < Len(split(contents)) =>
                  reports[k].error_line + 1 < LineCount
             /\ reports[k].outcome = "printed"
             /\ Len(split(contents)) = LineCount

\* a Fatal report has been made on the last line of a source of several
\* lines, after a Warning report
C20_Witness ==
    /\ pc = "exit"
    /\ Len(reports) = 2
    /\ reports[1].error_type = "Warning"
    /\ reports[2].error_type = "Fatal"
    /\ reports[2].error_line >= 1
    /\ reports[2].error_line = LineCount - 1

====
